---- MODULE Spec2Model ----
(***************************************************************************)
(* Model of src/app.py: the Flask handler proyectar() and the fuzzy        *)
(* control system it drives (scikit-fuzzy: Antecedent/Consequent, trimf,   *)
(* Rule, ControlSystem, ControlSystemSimulation).                          *)
(*                                                                         *)
(* Number representation.  Python floats are modelled by exact numbers:    *)
(*   - atractivo values and the exito_potencial universe are counted in    *)
(*     tenths (the step of np.arange(.., .., 0.1)), disponibilidad in      *)
(*     units, inversion in whole currency units;                           *)
(*   - membership degrees are integers in 0..Scale standing for 0..1;      *)
(*   - a computed number is a record [q, r, d, u] standing for the         *)
(*     rational (q + r/d) / u with 0 <= r < d.                             *)
(* Floating-point rounding is therefore not part of the model.             *)
(*                                                                         *)
(* Defuzzification.  The library samples the aggregated curve on the       *)
(* consequent universe and returns the centroid of the piecewise-linear    *)
(* curve through the samples.  Both end samples of this universe are       *)
(* always 0, so that centroid equals sum(x*mu(x)) / sum(mu(x)) over the    *)
(* 1001 grid points, which is what Centroid computes.  The extra sample    *)
(* points the library inserts where a term reaches its cut level move the  *)
(* result by less than 0.01 and are left out.                              *)
(***************************************************************************)
EXTENDS Integers, Sequences, FiniteSets, TLC

VARIABLES
    rules,               \* the rule list handed to ctrl.ControlSystem
    sim_input,           \* exito_sistema.input: name -> <<>> (unset) or <<value>>
    sim_output,          \* exito_sistema.output['exito_potencial']: <<>> or <<number>>
    pc,                  \* per request: position in proyectar()
    form,                \* per request: request.form
    atractivo_val,       \* per request: locals of proyectar()
    disponibilidad_val,
    inversion_val,
    exito_porcentaje,
    retorno_proyectado,
    ganancia_neta,
    nivel_texto,
    response             \* per request: what render_template received

vars == <<rules, sim_input, sim_output, pc, form, atractivo_val, disponibilidad_val,
          inversion_val, exito_porcentaje, retorno_proyectado, ganancia_neta,
          nivel_texto, response>>

-----------------------------------------------------------------------------
(* Bounds of the model *)

NumRequests == 3         \* requests served one after another (Spec)
ConcRequests == 2        \* requests in flight together (SpecConc)
OutMargin == 2           \* how many grid steps outside a universe inputs are drawn

Requests == 1..NumRequests

-----------------------------------------------------------------------------
(* Arithmetic *)

\* Degrees are multiples of 1/Scale: the least common multiple of every slope
\* denominator of the nine triangles (50, 30, 49, 40, 20, 150, 300, 200, 100).
Scale == 150 * 196

Min2(x, y) == IF x <= y THEN x ELSE y
Max2(x, y) == IF x >= y THEN x ELSE y

\* The rational (q + r/d) / u.
Num(q, r, d, u) == [q |-> q, r |-> r, d |-> d, u |-> u]

\* a * b = q * m + r with 0 <= r < m, for a >= 0 and 0 <= b < m, without
\* forming a * b (which may exceed 32 bits).
RECURSIVE MulDivMod(_, _, _)
MulDivMod(a, b, m) ==
    IF a = 0 THEN <<0, 0>>
    ELSE LET h == MulDivMod(a \div 2, b, m)
             r2 == 2 * h[2] + (IF a % 2 = 1 THEN b ELSE 0)
         IN <<2 * h[1] + (r2 \div m), r2 % m>>

\* x / k for an integer k > 0.
DivInt(x, k) == [x EXCEPT !.u = @ * k]

\* x * n for an integer n >= 0.
MulInt(x, n) ==
    LET p == MulDivMod(n, x.r, x.d)
    IN [x EXCEPT !.q = x.q * n + p[1], !.r = p[2]]

\* x - n for an integer n.
SubInt(x, n) == [x EXCEPT !.q = @ - n * x.u]

\* x < n for an integer n.
LessInt(x, n) == x.q < n * x.u

\* format(x, ".<k>f") as a count of 10^-k, for 10^k dividing x.u:
\* round to nearest, ties to even.
FormatFixed(x, pow10) ==
    LET t == x.u \div pow10
        fl == x.q \div t
        rem2 == 2 * ((x.q % t) * x.d + x.r)
        half2 == t * x.d
    IN IF rem2 < half2 THEN fl
       ELSE IF rem2 > half2 THEN fl + 1
       ELSE IF fl % 2 = 0 THEN fl ELSE fl + 1

-----------------------------------------------------------------------------
(* The fuzzy variables: universes (lines 14-20) *)

AtractivoMin == 0        \* np.arange(0, 10.1, 0.1), in tenths
AtractivoMax == 100
DisponibilidadMin == 1   \* np.arange(1, 100.1, 1)
DisponibilidadMax == 100
ExitoMin == 0            \* np.arange(0, 100.1, 0.1), in tenths
ExitoMax == 1000
ExitoUnit == 10          \* exito_potencial grid points per percent

UniverseMin(var) == IF var = "atractivo" THEN AtractivoMin ELSE DisponibilidadMin
UniverseMax(var) == IF var = "atractivo" THEN AtractivoMax ELSE DisponibilidadMax

\* fuzz.trimf(universe, [a, b, c]) at the grid point x: 1 at x = b, linear on the
\* open intervals (a, b) and (b, c) when they are not empty, 0 elsewhere.
trimf(x, abc) ==
    IF x = abc[2] THEN Scale
    ELSE IF abc[1] < x /\ x < abc[2] THEN ((x - abc[1]) * Scale) \div (abc[2] - abc[1])
    ELSE IF abc[2] < x /\ x < abc[3] THEN ((abc[3] - x) * Scale) \div (abc[3] - abc[2])
    ELSE 0

\* Variant: 'limitada' ending at 40 instead of 50.
disponibilidad_limitada_40 == <<1, 1, 40>>

(* Membership functions (lines 25-37) *)
atractivo_bajo == <<0, 0, 50>>
atractivo_promedio == <<30, 60, 90>>
atractivo_sobresaliente == <<70, 100, 100>>

disponibilidad_limitada == <<1, 1, 50>>
disponibilidad_adecuada == <<30, 70, 90>>
disponibilidad_abundante == <<70, 100, 100>>

exito_bajo == <<0, 150, 300>>
exito_moderado == <<200, 500, 800>>
exito_alto == <<700, 900, 1000>>

AntecedentTerm(var, term) ==
    IF var = "atractivo"
    THEN CASE term = "bajo" -> atractivo_bajo
           [] term = "promedio" -> atractivo_promedio
           [] term = "sobresaliente" -> atractivo_sobresaliente
    ELSE CASE term = "limitada" -> disponibilidad_limitada
           [] term = "adecuada" -> disponibilidad_adecuada
           [] term = "abundante" -> disponibilidad_abundante

ExitoTerms == {"bajo", "moderado", "alto"}

\* The sampled membership arrays of the consequent's terms (lines 35-37).
exito_potencial_bajo == [x \in ExitoMin..ExitoMax |-> trimf(x, exito_bajo)]
exito_potencial_moderado == [x \in ExitoMin..ExitoMax |-> trimf(x, exito_moderado)]
exito_potencial_alto == [x \in ExitoMin..ExitoMax |-> trimf(x, exito_alto)]

(* The rules (lines 41-59): antecedent leaves joined by & (min), one consequent *)
Rule(ante, cons) == [antecedent |-> ante, consequent |-> cons]

\* Variant: 'sobresaliente & limitada' concluding 'alto' instead of 'moderado'.
RuleBase_limitada_alto ==
    << Rule(<< <<"atractivo", "bajo">> >>, "bajo"),
       Rule(<< <<"atractivo", "sobresaliente">>, <<"disponibilidad", "abundante">> >>, "alto"),
       Rule(<< <<"atractivo", "sobresaliente">>, <<"disponibilidad", "limitada">> >>, "alto"),
       Rule(<< <<"atractivo", "promedio">>, <<"disponibilidad", "adecuada">> >>, "moderado"),
       Rule(<< <<"atractivo", "promedio">>, <<"disponibilidad", "abundante">> >>, "alto"),
       Rule(<< <<"atractivo", "promedio">>, <<"disponibilidad", "limitada">> >>, "bajo") >>

\* Variant: 'atractivo bajo' concluding 'moderado' instead of 'bajo'.
RuleBase_bajo_moderado ==
    << Rule(<< <<"atractivo", "bajo">> >>, "moderado"),
       Rule(<< <<"atractivo", "sobresaliente">>, <<"disponibilidad", "abundante">> >>, "alto"),
       Rule(<< <<"atractivo", "sobresaliente">>, <<"disponibilidad", "limitada">> >>, "moderado"),
       Rule(<< <<"atractivo", "promedio">>, <<"disponibilidad", "adecuada">> >>, "moderado"),
       Rule(<< <<"atractivo", "promedio">>, <<"disponibilidad", "abundante">> >>, "alto"),
       Rule(<< <<"atractivo", "promedio">>, <<"disponibilidad", "limitada">> >>, "bajo") >>

RuleBase ==
    << Rule(<< <<"atractivo", "bajo">> >>, "bajo"),
       Rule(<< <<"atractivo", "sobresaliente">>, <<"disponibilidad", "abundante">> >>, "alto"),
       Rule(<< <<"atractivo", "sobresaliente">>, <<"disponibilidad", "limitada">> >>, "moderado"),
       Rule(<< <<"atractivo", "promedio">>, <<"disponibilidad", "adecuada">> >>, "moderado"),
       Rule(<< <<"atractivo", "promedio">>, <<"disponibilidad", "abundante">> >>, "alto"),
       Rule(<< <<"atractivo", "promedio">>, <<"disponibilidad", "limitada">> >>, "bajo") >>

-----------------------------------------------------------------------------
(* ControlSystemSimulation (lines 62-63, used at lines 80-85) *)

\* exito_sistema.input[key] = value: with the simulation's default
\* clip_to_bounds the value is clipped into the antecedent's universe.
ClipToBounds(var, value) == Max2(UniverseMin(var), Min2(UniverseMax(var), value))

InputSetItem(inp, key, value) == [inp EXCEPT ![key] = <<ClipToBounds(key, value)>>]

\* Fuzzification of one antecedent leaf: the term's degree at the current input.
Degree(inp, leaf) == trimf(inp[leaf[1]][1], AntecedentTerm(leaf[1], leaf[2]))

\* Firing strength of a rule: min over its &-joined leaves.
Firing(rule, inp) ==
    LET a == rule.antecedent
    IN IF Len(a) = 1 THEN Degree(inp, a[1])
       ELSE Min2(Degree(inp, a[1]), Degree(inp, a[2]))

\* Variant: the last rule computed overwrites the term's membership value.
AccumulateLast(prev, value) == <<value>>

\* Accumulation onto a consequent term: the first firing sets the term's
\* membership value, later ones are combined with the accumulation method (max).
Accumulate(prev, value) == IF prev = <<>> THEN <<value>> ELSE <<Max2(value, prev[1])>>

\* The rules computed in list order; cuts maps each consequent term to <<>> or <<cut>>.
RECURSIVE ComputeRules(_, _, _, _)
ComputeRules(rs, inp, cuts, i) ==
    IF i > Len(rs) THEN cuts
    ELSE ComputeRules(rs, inp,
             [cuts EXCEPT ![rs[i].consequent] = Accumulate(@, Firing(rs[i], inp))],
             i + 1)

NoCuts == [t \in ExitoTerms |-> <<>>]

\* Aggregated membership at grid point x: each term clipped at its cut, max over terms.
Mu(cb, cm, ca, x) ==
    Max2(Min2(cb, exito_potencial_bajo[x]),
         Max2(Min2(cm, exito_potencial_moderado[x]),
              Min2(ca, exito_potencial_alto[x])))

\* sum(mu[x]) over lo..hi.
RECURSIVE SumMu(_, _, _)
SumMu(mu, lo, hi) ==
    IF lo = hi THEN mu[lo]
    ELSE LET mid == (lo + hi) \div 2
         IN SumMu(mu, lo, mid) + SumMu(mu, mid + 1, hi)

\* sum(x * mu[x]) over lo..hi.
RECURSIVE SumXMu(_, _, _)
SumXMu(mu, lo, hi) ==
    IF lo = hi THEN lo * mu[lo]
    ELSE LET mid == (lo + hi) \div 2
         IN SumXMu(mu, lo, mid) + SumXMu(mu, mid + 1, hi)

\* sum(x * mu[x]) over lo..hi as <<quotient, remainder>> by den; ranges are halved
\* until a range's sum fits 32 bits, and the remainders are added (at most 32 of them).
RECURSIVE MomentQR(_, _, _, _)
MomentQR(mu, den, lo, hi) ==
    IF hi - lo < 50
    THEN LET b == SumXMu(mu, lo, hi) IN <<b \div den, b % den>>
    ELSE LET mid == (lo + hi) \div 2
             l == MomentQR(mu, den, lo, mid)
             h == MomentQR(mu, den, mid + 1, hi)
         IN <<l[1] + h[1], l[2] + h[2]>>

\* Variant: a zero total yields 0.0 instead of failing.
CentroidZeroDefault(cb, cm, ca) ==
    LET mu == [x \in ExitoMin..ExitoMax |-> Mu(cb, cm, ca, x)]
        den == SumMu(mu, ExitoMin, ExitoMax)
    IN IF den = 0 THEN <<Num(0, 0, 1, ExitoUnit)>>
       ELSE LET qr == MomentQR(mu, den, ExitoMin, ExitoMax)
            IN <<Num(qr[1] + (qr[2] \div den), qr[2] % den, den, ExitoUnit)>>

\* Centroid of the aggregated curve: <<>> when its total is zero (the library's
\* defuzz then fails), else <<sum(x*mu)/sum(mu)>> in tenths of a percent.
Centroid(cb, cm, ca) ==
    LET mu == [x \in ExitoMin..ExitoMax |-> Mu(cb, cm, ca, x)]
        den == SumMu(mu, ExitoMin, ExitoMax)
    IN IF den = 0 THEN <<>>
       ELSE LET qr == MomentQR(mu, den, ExitoMin, ExitoMax)
            IN <<Num(qr[1] + (qr[2] \div den), qr[2] % den, den, ExitoUnit)>>

CutOf(cuts, t) == IF cuts[t] = <<>> THEN 0 ELSE cuts[t][1]

\* CrispValueCalculator.defuzz: ValueError (<<>>) when no term has a membership
\* value or the aggregated area is zero.
Defuzz(cuts) ==
    IF \A t \in ExitoTerms : cuts[t] = <<>> THEN <<>>
    ELSE Centroid(CutOf(cuts, "bajo"), CutOf(cuts, "moderado"), CutOf(cuts, "alto"))

\* exito_sistema.compute(): <<>> for ValueError, else <<crisp output>>.
ComputeOutput(rs, inp) ==
    IF \E v \in DOMAIN inp : inp[v] = <<>> THEN <<>>
    ELSE Defuzz(ComputeRules(rs, inp, NoCuts, 1))

-----------------------------------------------------------------------------
(* proyectar(): lines 91-116 *)

ReturnDivisor == 50      \* factor_retorno = exito_porcentaje / 50.0
BandLow == 35            \* if exito_porcentaje < 35
BandHigh == 75           \* elif exito_porcentaje < 75

\* Variant: normalising by 100 instead of 50.
factor_retorno_100(exito) == DivInt(exito, 2 * ReturnDivisor)

factor_retorno(exito) == DivInt(exito, ReturnDivisor)

RetornoProyectado(inversion, exito) == MulInt(factor_retorno(exito), inversion)

GananciaNeta(retorno, inversion) == SubInt(retorno, inversion)

\* Variant: the band tests written with <= instead of <.
NivelTextoInclusive(exito) ==
    IF LessInt(exito, BandLow) \/ (exito.q = BandLow * exito.u /\ exito.r = 0) THEN "Bajo"
    ELSE IF LessInt(exito, BandHigh) \/ (exito.q = BandHigh * exito.u /\ exito.r = 0)
         THEN "Moderado"
    ELSE "Alto"

NivelTexto(exito) ==
    IF LessInt(exito, BandLow) THEN "Bajo"
    ELSE IF LessInt(exito, BandHigh) THEN "Moderado"
    ELSE "Alto"

ColorClase(nivel) ==
    CASE nivel = "Bajo" -> "text-red-600 border-red-600 bg-red-50"
      [] nivel = "Moderado" -> "text-yellow-600 border-yellow-600 bg-yellow-50"
      [] nivel = "Alto" -> "text-green-600 border-green-600 bg-green-50"

MensajeClave(nivel) ==
    CASE nivel = "Bajo" -> "Riesgo alto. Se recomienda revisar el Atractivo o la Disponibilidad."
      [] nivel = "Moderado" -> "Potencial equilibrado. Se sugiere optimizar la Disponibilidad."
      [] nivel = "Alto" -> "Excelente proyeccion! Continuar con la estrategia actual."

-----------------------------------------------------------------------------
(* Requests *)

\* A form field: text that float() accepts (with its value) or rejects.
Text(n) == [numeric |-> TRUE, value |-> n]
Garbage == [numeric |-> FALSE, value |-> 0]

Form(a, d, i) == [atractivo |-> a, disponibilidad |-> d, inversion |-> i]
NoForm == Form(Garbage, Garbage, Garbage)

NoResponse == [kind |-> "none"]
ParseErrorResponse ==
    [kind |-> "error", error |-> "Error: Por favor, ingrese valores numericos validos."]
ComputeErrorResponse ==
    [kind |-> "error",
     error |-> "Error al calcular el potencial. Verifique los rangos de entrada."]

Unset == [v \in {"atractivo", "disponibilidad"} |-> <<>>]

InitLocals ==
    /\ form = [r \in Requests |-> NoForm]
    /\ atractivo_val = [r \in Requests |-> <<>>]
    /\ disponibilidad_val = [r \in Requests |-> <<>>]
    /\ inversion_val = [r \in Requests |-> <<>>]
    /\ exito_porcentaje = [r \in Requests |-> <<>>]
    /\ retorno_proyectado = [r \in Requests |-> <<>>]
    /\ ganancia_neta = [r \in Requests |-> <<>>]
    /\ nivel_texto = [r \in Requests |-> ""]
    /\ response = [r \in Requests |-> NoResponse]

\* After module import: the control system is built, no input was ever set.
Init ==
    /\ rules = RuleBase
    /\ sim_input = Unset
    /\ sim_output = <<>>
    /\ pc = [r \in Requests |-> "idle"]
    /\ InitLocals

\* A POST /proyectar arrives with form f and is dispatched to proyectar().
Post(r, f) ==
    /\ pc[r] = "idle"
    /\ form' = [form EXCEPT ![r] = f]
    /\ pc' = [pc EXCEPT ![r] = "parse"]
    /\ UNCHANGED <<rules, sim_input, sim_output, atractivo_val, disponibilidad_val,
                   inversion_val, exito_porcentaje, retorno_proyectado, ganancia_neta,
                   nivel_texto, response>>

\* Lines 72-75: the three float() conversions succeed.  (Fields are finite
\* numbers on the model's grids or text float() rejects; a missing field, nan and
\* inf are not drawn.)
Parse(r) ==
    /\ pc[r] = "parse"
    /\ form[r].atractivo.numeric /\ form[r].disponibilidad.numeric /\ form[r].inversion.numeric
    /\ atractivo_val' = [atractivo_val EXCEPT ![r] = <<form[r].atractivo.value>>]
    /\ disponibilidad_val' = [disponibilidad_val EXCEPT ![r] = <<form[r].disponibilidad.value>>]
    /\ inversion_val' = [inversion_val EXCEPT ![r] = <<form[r].inversion.value>>]
    /\ pc' = [pc EXCEPT ![r] = "set_atractivo"]
    /\ UNCHANGED <<rules, sim_input, sim_output, form, exito_porcentaje, retorno_proyectado,
                   ganancia_neta, nivel_texto, response>>

\* Lines 76-77: a float() raised ValueError.  The assignments made before the
\* failing conversion are locals of the call and die with it.
ParseError(r) ==
    /\ pc[r] = "parse"
    /\ ~(form[r].atractivo.numeric /\ form[r].disponibilidad.numeric /\ form[r].inversion.numeric)
    /\ response' = [response EXCEPT ![r] = ParseErrorResponse]
    /\ pc' = [pc EXCEPT ![r] = "done"]
    /\ UNCHANGED <<rules, sim_input, sim_output, form, atractivo_val, disponibilidad_val,
                   inversion_val, exito_porcentaje, retorno_proyectado, ganancia_neta,
                   nivel_texto>>

\* Line 80.
WriteAtractivo(inp, value) == InputSetItem(inp, "atractivo", value)

SetAtractivo(r) ==
    /\ pc[r] = "set_atractivo"
    /\ sim_input' = WriteAtractivo(sim_input, atractivo_val[r][1])
    /\ pc' = [pc EXCEPT ![r] = "set_disponibilidad"]
    /\ UNCHANGED <<rules, sim_output, form, atractivo_val, disponibilidad_val, inversion_val,
                   exito_porcentaje, retorno_proyectado, ganancia_neta, nivel_texto, response>>

\* Line 81.
WriteDisponibilidad(inp, value) == InputSetItem(inp, "disponibilidad", value)

SetDisponibilidad(r) ==
    /\ pc[r] = "set_disponibilidad"
    /\ sim_input' = WriteDisponibilidad(sim_input, disponibilidad_val[r][1])
    /\ pc' = [pc EXCEPT ![r] = "compute"]
    /\ UNCHANGED <<rules, sim_output, form, atractivo_val, disponibilidad_val, inversion_val,
                   exito_porcentaje, retorno_proyectado, ganancia_neta, nivel_texto, response>>

\* Variant: a failing compute() is not turned into the error page while the
\* simulation still holds an output; the request goes on to read that output.
ComputeKeepsStaleOutput(r) ==
    /\ pc[r] = "compute"
    /\ \E out \in {ComputeOutput(rules, sim_input)} :
          IF out = <<>> /\ sim_output = <<>>
          THEN /\ response' = [response EXCEPT ![r] = ComputeErrorResponse]
               /\ pc' = [pc EXCEPT ![r] = "done"]
               /\ UNCHANGED sim_output
          ELSE /\ sim_output' = (IF out = <<>> THEN sim_output ELSE out)
               /\ pc' = [pc EXCEPT ![r] = "read"]
               /\ UNCHANGED response
    /\ UNCHANGED <<rules, sim_input, form, atractivo_val, disponibilidad_val, inversion_val,
                   exito_porcentaje, retorno_proyectado, ganancia_neta, nivel_texto>>

\* Lines 83-88: compute() either stores the crisp value in the simulation's
\* output, or raises ValueError, which ends the request with the error page and
\* leaves the output as it was.
Compute(r) ==
    /\ pc[r] = "compute"
    /\ \E out \in {ComputeOutput(rules, sim_input)} :
          IF out = <<>>
          THEN /\ response' = [response EXCEPT ![r] = ComputeErrorResponse]
               /\ pc' = [pc EXCEPT ![r] = "done"]
               /\ UNCHANGED sim_output
          ELSE /\ sim_output' = out
               /\ pc' = [pc EXCEPT ![r] = "read"]
               /\ UNCHANGED response
    /\ UNCHANGED <<rules, sim_input, form, atractivo_val, disponibilidad_val, inversion_val,
                   exito_porcentaje, retorno_proyectado, ganancia_neta, nivel_texto>>

\* Line 85.
ReadOutput(r) ==
    /\ pc[r] = "read"
    /\ exito_porcentaje' = [exito_porcentaje EXCEPT ![r] = sim_output]
    /\ pc' = [pc EXCEPT ![r] = "project"]
    /\ UNCHANGED <<rules, sim_input, sim_output, form, atractivo_val, disponibilidad_val,
                   inversion_val, retorno_proyectado, ganancia_neta, nivel_texto, response>>

\* Lines 91-129: return projection, band, rendering of the result page.
Project(r) ==
    /\ pc[r] = "project"
    /\ LET exito == exito_porcentaje[r][1]
           inversion == inversion_val[r][1]
           retorno == RetornoProyectado(inversion, exito)
           ganancia == GananciaNeta(retorno, inversion)
           nivel == NivelTexto(exito)
       IN /\ retorno_proyectado' = [retorno_proyectado EXCEPT ![r] = <<retorno>>]
          /\ ganancia_neta' = [ganancia_neta EXCEPT ![r] = <<ganancia>>]
          /\ nivel_texto' = [nivel_texto EXCEPT ![r] = nivel]
          /\ response' = [response EXCEPT ![r] =
                 [kind |-> "result",
                  atractivo |-> atractivo_val[r],
                  disponibilidad |-> disponibilidad_val[r],
                  inversion |-> inversion_val[r],
                  exito_porcentaje |-> FormatFixed(exito, 10),
                  nivel_texto |-> nivel,
                  color_clase |-> ColorClase(nivel),
                  mensaje_clave |-> MensajeClave(nivel),
                  retorno_proyectado |-> FormatFixed(retorno, 100),
                  ganancia_neta |-> FormatFixed(ganancia, 100)]]
    /\ pc' = [pc EXCEPT ![r] = "done"]
    /\ UNCHANGED <<rules, sim_input, sim_output, form, atractivo_val, disponibilidad_val,
                   inversion_val, exito_porcentaje>>

Handler(r) ==
    \/ Parse(r)
    \/ ParseError(r)
    \/ SetAtractivo(r)
    \/ SetDisponibilidad(r)
    \/ Compute(r)
    \/ ReadOutput(r)
    \/ Project(r)

-----------------------------------------------------------------------------------------------------------------------------------------------------
(* Specifications *)

Arrive(r, forms) == pc[r] = "idle" /\ \E f \in forms : Post(r, f)

\* Spec: NumRequests requests served strictly one after another (a request is
\* dispatched when every earlier one has been answered).
SeqForms ==
    { Form(Text(10), Text(1), Text(1000)),
      Form(Text(95), Text(95), Text(1000)),
      Form(Text(95), Text(60), Text(1000)),
      Form(Text(37), Text(100), Text(1000)),
      Form(Text(50), Garbage, Text(1000)) }

Next ==
    \E r \in Requests :
        \/ (\A o \in 1..(r - 1) : pc[o] = "done") /\ Arrive(r, SeqForms)
        \/ Handler(r)

Spec == Init /\ [][Next]_vars

\* SpecConc: ConcRequests requests handled by concurrent threads of the server
\* (app.run serves each request in its own thread); their steps interleave at the
\* statements of proyectar(), each statement taken as one step.
ConcForms ==
    { Form(Text(10), Text(1), Text(1000)),
      Form(Text(95), Text(95), Text(1000)),
      Form(Text(95), Text(60), Text(1000)),
      Form(Garbage, Text(5), Text(1000)) }

NextConc ==
    \E r \in 1..ConcRequests :
        \/ Arrive(r, ConcForms)
        \/ Handler(r)

SpecConc == Init /\ [][NextConc]_vars

\* SpecGrid: one request, its inputs drawn from the universes' grids and
\* OutMargin steps beyond them.
GridForms ==
    { Form(Text(a), Text(d), Text(1000)) :
        a \in (AtractivoMin - OutMargin)..(AtractivoMax + OutMargin),
        d \in (DisponibilidadMin - OutMargin)..(DisponibilidadMax + OutMargin) }
    \cup { Form(Text(50), Garbage, Text(1000)) }

NextGrid ==
    \/ Arrive(1, GridForms)
    \/ Handler(1)

SpecGrid == Init /\ [][NextGrid]_vars

\* SpecPerm: the control system built from any permutation of the rule list.
PermRules == { [i \in 1..Len(RuleBase) |-> RuleBase[p[i]]] : p \in Permutations(1..Len(RuleBase)) }

PermForms ==
    { Form(Text(37), Text(100), Text(1000)),
      Form(Text(40), Text(20), Text(1000)),
      Form(Text(75), Text(85), Text(1000)),
      Form(Text(80), Text(40), Text(1000)),
      Form(Text(95), Text(60), Text(1000)),
      Form(Text(50), Text(50), Garbage) }

InitPerm ==
    /\ rules \in PermRules
    /\ sim_input = Unset
    /\ sim_output = <<>>
    /\ pc = [r \in Requests |-> "idle"]
    /\ InitLocals

NextPerm ==
    \/ Arrive(1, PermForms)
    \/ Handler(1)

SpecPerm == InitPerm /\ [][NextPerm]_vars

\* SpecProj: lines 91-129 as a function of exito_porcentaje and inversion_val,
\* both drawn from sample sets that hold the band boundaries.
ExitoSamples ==
    { Num(q, f[1], f[2], ExitoUnit) :
        q \in {0, 349, 350, 500, 749, 750, 999},
        f \in {<<0, 1>>, <<1, 2>>, <<99, 100>>} }
    \cup { Num(ExitoMax, 0, 1, ExitoUnit) }

InversionSamples == {0, 1, 1000, 2500}

InitProj ==
    /\ rules = RuleBase
    /\ sim_input = [atractivo |-> <<50>>, disponibilidad |-> <<50>>]
    /\ \E s \in ExitoSamples, i \in InversionSamples :
          /\ sim_output = <<s>>
          /\ exito_porcentaje = [r \in Requests |-> IF r = 1 THEN <<s>> ELSE <<>>]
          /\ inversion_val = [r \in Requests |-> IF r = 1 THEN <<i>> ELSE <<>>]
          /\ form = [r \in Requests |->
                        IF r = 1 THEN Form(Text(50), Text(50), Text(i)) ELSE NoForm]
    /\ pc = [r \in Requests |-> IF r = 1 THEN "project" ELSE "idle"]
    /\ atractivo_val = [r \in Requests |-> IF r = 1 THEN <<50>> ELSE <<>>]
    /\ disponibilidad_val = [r \in Requests |-> IF r = 1 THEN <<50>> ELSE <<>>]
    /\ retorno_proyectado = [r \in Requests |-> <<>>]
    /\ ganancia_neta = [r \in Requests |-> <<>>]
    /\ nivel_texto = [r \in Requests |-> ""]
    /\ response = [r \in Requests |-> NoResponse]

NextProj == Project(1)

SpecProj == InitProj /\ [][NextProj]_vars

-----------------------------------------------------------------------------
(* Properties *)

Done(r) == pc[r] = "done"
Parsed(r) == atractivo_val[r] # <<>>
IsResult(r) == response[r].kind = "result"
ComputeFailed(r) == response[r] = ComputeErrorResponse

\* The simulation's input after request r alone has written its two values.
OwnInput(r) ==
    InputSetItem(InputSetItem(Unset, "atractivo", atractivo_val[r][1]),
                 "disponibilidad", disponibilidad_val[r][1])

InUniverse(r) ==
    /\ AtractivoMin <= atractivo_val[r][1] /\ atractivo_val[r][1] <= AtractivoMax
    /\ DisponibilidadMin <= disponibilidad_val[r][1]
    /\ disponibilidad_val[r][1] <= DisponibilidadMax

AllRulesZero(inp) == \A i \in 1..Len(RuleBase) : Firing(RuleBase[i], inp) = 0

NoNumbers(r) ==
    /\ exito_porcentaje[r] = <<>>
    /\ retorno_proyectado[r] = <<>>
    /\ ganancia_neta[r] = <<>>
    /\ nivel_texto[r] = ""

\* C1: whenever all six rules have firing strength 0 for a request's inputs, the
\* request ends with the 'cannot compute' error page and carries no
\* successPercent, projectedReturn, netGain or band (in particular not 0.0).
C1_ZeroFiringIsError ==
    \A r \in Requests :
        Done(r) /\ Parsed(r) /\ AllRulesZero(OwnInput(r))
            => ComputeFailed(r) /\ NoNumbers(r)

C1_Witness ==
    \E r \in Requests :
        /\ Done(r) /\ Parsed(r) /\ AllRulesZero(OwnInput(r))
        /\ ComputeFailed(r)

\* C2: with requests running concurrently, every answered request carries the
\* outcome the inference pipeline gives for its own (atractivo, disponibilidad):
\* the error page when the pipeline fails on them, else that crisp value.
C2_OwnOutcomeUnderConcurrency ==
    \A r \in Requests :
        Done(r) /\ Parsed(r)
            => LET own == ComputeOutput(RuleBase, OwnInput(r))
               IN IF own = <<>> THEN ComputeFailed(r)
                  ELSE IsResult(r) /\ exito_porcentaje[r] = own

\* C3: with requests served one after another, two answered requests with the
\* same atractivo and disponibilidad have the same outcome (the same
\* successPercent, or both the 'cannot compute' error), whatever ran in between.
C3_SameInputsSameOutcome ==
    \A r1, r2 \in Requests :
        /\ Done(r1) /\ Parsed(r1) /\ Done(r2) /\ Parsed(r2)
        /\ atractivo_val[r1] = atractivo_val[r2]
        /\ disponibilidad_val[r1] = disponibilidad_val[r2]
        => /\ ComputeFailed(r1) <=> ComputeFailed(r2)
           /\ exito_porcentaje[r1] = exito_porcentaje[r2]

C3_Witness ==
    /\ \A r \in 1..3 : Done(r)
    /\ Parsed(1) /\ Parsed(3)
    /\ atractivo_val[1] = atractivo_val[3]
    /\ disponibilidad_val[1] = disponibilidad_val[3]
    /\ IsResult(1) /\ IsResult(3)
    /\ response[2].kind = "error"

\* C4: once a request has written an input that lies outside the variable's
\* universe, every term of that variable has degree 0 at the simulation's input.
C4_OutOfRangeDegreesZero ==
    \A r \in Requests :
        pc[r] = "compute"
            => /\ (atractivo_val[r][1] < AtractivoMin \/ atractivo_val[r][1] > AtractivoMax)
                    => \A t \in {"bajo", "promedio", "sobresaliente"} :
                           Degree(sim_input, <<"atractivo", t>>) = 0
               /\ (disponibilidad_val[r][1] < DisponibilidadMin
                        \/ disponibilidad_val[r][1] > DisponibilidadMax)
                    => \A t \in {"limitada", "adecuada", "abundante"} :
                           Degree(sim_input, <<"disponibilidad", t>>) = 0

\* C5: the band of a result is "Bajo" when successPercent < 35, "Moderado" when
\* 35 <= successPercent < 75 and "Alto" when successPercent >= 75, so that 35 and
\* 75 themselves fall in the upper band.
C5_HalfOpenBands ==
    \A r \in Requests :
        Done(r) /\ IsResult(r)
            => LET s == exito_porcentaje[r][1]
               IN /\ s.q < 35 * s.u => nivel_texto[r] = "Bajo"
                  /\ 35 * s.u <= s.q /\ s.q < 75 * s.u => nivel_texto[r] = "Moderado"
                  /\ 75 * s.u <= s.q => nivel_texto[r] = "Alto"
                  /\ response[r].nivel_texto = nivel_texto[r]

C5_Witness ==
    \E r \in Requests :
        /\ Done(r) /\ IsResult(r)
        /\ exito_porcentaje[r][1].q = 35 * exito_porcentaje[r][1].u
        /\ exito_porcentaje[r][1].r = 0
        /\ nivel_texto[r] = "Moderado"

\* C6: projectedReturn * 50 = investment * successPercent and
\* netGain = projectedReturn - investment, with a result page and no error; at
\* successPercent = 50, projectedReturn = investment and netGain = 0.
C6_ReturnProjection ==
    \A r \in Requests :
        pc[r] = "done" /\ exito_porcentaje[r] # <<>>
            => LET s == exito_porcentaje[r][1]
                   n == inversion_val[r][1]
                   ret == retorno_proyectado[r][1]
                   gan == ganancia_neta[r][1]
               IN /\ IsResult(r)
                  \* ret * 50 = n * s, both sides over the denominator s.d * s.u
                  /\ ret.u = 50 * s.u /\ ret.d = s.d
                  /\ ret.q * ret.d + ret.r = n * (s.q * s.d + s.r)
                  \* gan = ret - n
                  /\ gan.u = ret.u /\ gan.d = ret.d /\ gan.r = ret.r
                  /\ gan.q = ret.q - n * ret.u
                  /\ (s.q = 50 * s.u /\ s.r = 0)
                        => /\ ret.q = n * ret.u /\ ret.r = 0
                           /\ gan.q = 0 /\ gan.r = 0

C6_Witness ==
    \E r \in Requests :
        /\ Done(r) /\ IsResult(r)
        /\ exito_porcentaje[r][1].q = 50 * exito_porcentaje[r][1].u
        /\ exito_porcentaje[r][1].r = 0
        /\ inversion_val[r] = <<1000>>
        /\ response[r].retorno_proyectado = 100000
        /\ response[r].ganancia_neta = 0

\* C7: with the control system built from any permutation of the rule list, a
\* request's outcome is the one the original rule order gives for its inputs.
C7_RuleOrderIndependent ==
    \A r \in Requests :
        Done(r) /\ Parsed(r)
            => LET original == ComputeOutput(RuleBase, OwnInput(r))
               IN IF original = <<>> THEN ComputeFailed(r) /\ NoNumbers(r)
                  ELSE IsResult(r) /\ exito_porcentaje[r] = original

C7_Witness ==
    \E r \in Requests :
        /\ Done(r) /\ IsResult(r)
        /\ rules # RuleBase
        /\ \E i, j \in 1..Len(rules) :
              /\ i < j
              /\ rules[i].consequent = rules[j].consequent
              /\ Firing(rules[i], OwnInput(r)) > Firing(rules[j], OwnInput(r))
              /\ Firing(rules[j], OwnInput(r)) > 0

\* C8: (atractivo 1, disponibilidad 1) gives successPercent within [10, 20] and
\* band "Bajo"; (9.5, 95) gives successPercent >= 75 and band "Alto"; (9.5, 5)
\* gives successPercent in [35, 75) and band "Moderado".
C8_ReferenceScenarios ==
    \A r \in Requests :
        Done(r) /\ Parsed(r)
            => LET a == atractivo_val[r][1]
                   d == disponibilidad_val[r][1]
                   s == exito_porcentaje[r][1]
               IN /\ (a = 10 /\ d = 1)
                        => /\ IsResult(r)
                           /\ 10 * s.u <= s.q
                           /\ (s.q < 20 * s.u \/ (s.q = 20 * s.u /\ s.r = 0))
                           /\ nivel_texto[r] = "Bajo"
                  /\ (a = 95 /\ d = 95)
                        => /\ IsResult(r)
                           /\ 75 * s.u <= s.q
                           /\ nivel_texto[r] = "Alto"
                  /\ (a = 95 /\ d = 5)
                        => /\ IsResult(r)
                           /\ 35 * s.u <= s.q /\ s.q < 75 * s.u
                           /\ nivel_texto[r] = "Moderado"

C8_Witness ==
    \E r \in Requests :
        /\ Done(r) /\ IsResult(r)
        /\ atractivo_val[r] = <<95>> /\ disponibilidad_val[r] = <<5>>
        /\ nivel_texto[r] = "Moderado"

BajoDominates(r) ==
    /\ Degree(OwnInput(r), <<"atractivo", "bajo">>)
          >= Degree(OwnInput(r), <<"atractivo", "promedio">>)
    /\ Degree(OwnInput(r), <<"atractivo", "bajo">>)
          >= Degree(OwnInput(r), <<"atractivo", "sobresaliente">>)

IsLow(r) ==
    /\ IsResult(r)
    /\ exito_porcentaje[r][1].q < 35 * exito_porcentaje[r][1].u
    /\ nivel_texto[r] = "Bajo"

\* C9 as stated: for in-range inputs whose atractivo degree in 'bajo' is at
\* least its degree in 'promedio' and in 'sobresaliente', compute succeeds and
\* successPercent is in the Low band (< 35).
C9_LowWheneverBajoDominates ==
    \A r \in Requests :
        Done(r) /\ Parsed(r) /\ InUniverse(r) /\ BajoDominates(r) => IsLow(r)

\* C9 as amended: for in-range inputs whose atractivo has degree 0 in 'promedio'
\* and in 'sobresaliente' (atractivo <= 3), compute succeeds and successPercent is
\* in the Low band (< 35), whatever the disponibilidad.
C9_LowWhenOnlyBajo ==
    \A r \in Requests :
        /\ Done(r) /\ Parsed(r) /\ InUniverse(r)
        /\ Degree(OwnInput(r), <<"atractivo", "promedio">>) = 0
        /\ Degree(OwnInput(r), <<"atractivo", "sobresaliente">>) = 0
        => IsLow(r)

C9_Witness ==
    \E r \in Requests :
        /\ Done(r) /\ Parsed(r)
        /\ atractivo_val[r] = <<30>> /\ disponibilidad_val[r] = <<100>>
        /\ Degree(OwnInput(r), <<"atractivo", "promedio">>) = 0
        /\ IsLow(r)

\* C10: over the in-range grid inputs the request ends in the 'cannot compute'
\* error exactly when 9 <= atractivo <= 10 and 50 <= disponibilidad <= 70; for
\* every other pair some rule has nonzero firing strength and a successPercent
\* is returned.
C10_ErrorRegion ==
    \A r \in Requests :
        Done(r) /\ Parsed(r) /\ InUniverse(r)
            => LET a == atractivo_val[r][1]
                   d == disponibilidad_val[r][1]
               IN IF 90 <= a /\ a <= 100 /\ 50 <= d /\ d <= 70
                  THEN ComputeFailed(r) /\ NoNumbers(r)
                  ELSE /\ IsResult(r)
                       /\ exito_porcentaje[r] # <<>>
                       /\ ~AllRulesZero(OwnInput(r))

C10_Witness ==
    \E r \in Requests :
        /\ Done(r) /\ Parsed(r)
        /\ atractivo_val[r] = <<90>> /\ disponibilidad_val[r] = <<50>>
        /\ ComputeFailed(r)

====
